---- MODULE Spec2Model ----
(***************************************************************************)
(* Model of foldseek_umap.py (StrucGrouper): main() turns a headerless     *)
(* Foldseek TSV of query/target hits into the (indices, dists) arrays of   *)
(* a precomputed k-NN graph and hands them to UMAP.                        *)
(*                                                                         *)
(* Numbers are fixed point with two decimals: the float 0.8 is 80, the     *)
(* score 80.0 is 8000, so score / 100.0 is 8000 \div 100 = 80.             *)
(* Identifiers are strings, modelled as sequences of character codes so    *)
(* that sorted() is the lexicographic order.                               *)
(* Arrays are 0-based in the code and sequences are 1-based here: column j *)
(* of a row is position j + 1, rows are indexed 0 .. N-1 as in the code.   *)
(***************************************************************************)
EXTENDS Integers, Sequences, FiniteSets

\* ------------------------------------------------------------------ bounds
\* longest input file, in records
MaxRecords == 2
\* largest --k
MaxK == 2

\* ------------------------------------------------------ values and inputs
\* pd.to_numeric(..., errors="coerce") turns an unparseable field into NaN;
\* a column the file does not have is NaN as well and is told apart by ncols
NaN == -1000000
\* np.inf, the fill value of dists
Inf == 1000000
\* the fill value of indices
NoIndex == -1

\* "A", "AB", "B": sorted() puts "AB" between "A" and "B"
Ids == { <<1>>, <<1, 2>>, <<2>> }
\* identifiers that occur as query in the longer files
Queries == { <<1>>, <<1, 2>> }

\* number of columns of the file; 8 or more is the preferred set
NCols == 5..8
\* --k
Ks == 0..MaxK
\* --umap_n_neighbors: one value every k admits, one no k admits
UmapKs == {1, MaxK + 2}
\* --min_tm
MinTms == {0, 50}

HasEvalue(nc) == nc >= 6
HasScore(nc) == nc >= 7
HasAlntmscore(nc) == nc >= 8

\* the numeric fields of a record of a file with nc columns
Fields(nc, ev, sc, al) ==
    [evalue |-> IF HasEvalue(nc) THEN ev ELSE NaN,
     score |-> IF HasScore(nc) THEN sc ELSE NaN,
     alntmscore |-> IF HasAlntmscore(nc) THEN al ELSE NaN]

\* two field profiles for the files of several records
FewFields(nc) == { Fields(nc, 50, 9000, 40), Fields(nc, 500, 4000, 90) }
\* every combination of field values for the files of one record
AllFields(nc) ==
    { Fields(nc, ev, sc, al) : ev \in {NaN, -10, 50, 100, 500},
                               sc \in {NaN, -2000, 8000, 15000},
                               al \in {NaN, 0, 90, 150} }

\* a record as read_csv and to_numeric leave it; tm is set by the resolver
Rec(q, t, f) ==
    [query |-> q, target |-> t, evalue |-> f.evalue, score |-> f.score,
     alntmscore |-> f.alntmscore, tm |-> NaN, line |-> 0]

FewRecs(nc) == { Rec(q, t, f) : q \in Queries, t \in Ids, f \in FewFields(nc) }
AllRecs(nc) == { Rec(<<1>>, <<2>>, f) : f \in AllFields(nc) }

\* the input files with nc columns: never empty (read_csv raises on an empty file)
Files(nc) ==
    UNION { [1..n -> FewRecs(nc)] : n \in 1..MaxRecords }
    \cup [1..1 -> AllRecs(nc)]

\* --------------------------------------------------------- pure helpers
Min(a, b) == IF a <= b THEN a ELSE b

RECURSIVE LexLess(_, _)
\* Python's str <: lexicographic, a proper prefix is smaller
LexLess(a, b) ==
    IF b = <<>> THEN FALSE
    ELSE IF a = <<>> THEN TRUE
    ELSE IF Head(a) # Head(b) THEN Head(a) < Head(b)
    ELSE LexLess(Tail(a), Tail(b))

RECURSIVE SortedIds(_)
\* sorted(S) for a set of identifiers
SortedIds(S) ==
    IF S = {} THEN <<>>
    ELSE LET m == CHOOSE x \in S : \A y \in S \ {x} : LexLess(x, y)
         IN <<m>> \o SortedIds(S \ {m})

\* ------------------------------------------------- similarity (56-74)
\* df["score"] / 100.0: NaN stays NaN
ScoreOver100(r) == IF r.score = NaN THEN NaN ELSE r.score \div 100

\* ev.where((ev >= 0.0) & (ev <= 1.0)): NaN compares false, so stays NaN
EvValid(r) ==
    IF r.evalue # NaN /\ r.evalue >= 0 /\ r.evalue <= 100 THEN r.evalue ELSE NaN

\* the candidates list, as the names of the series appended to it
CandidateCols(nc) ==
    (IF HasScore(nc) THEN <<"score">> ELSE <<>>)
    \o (IF HasEvalue(nc) THEN <<"evalue">> ELSE <<>>)

CandidateVal(c, r) == IF c = "score" THEN ScoreOver100(r) ELSE EvValid(r)

\* max of two cells with skipna=True
NanMax(a, b) == IF a = NaN THEN b ELSE IF b = NaN THEN a ELSE IF a >= b THEN a ELSE b

RECURSIVE RowMax(_, _)
\* pd.concat(candidates, axis=1).max(axis=1) on one row: NaN when every cell is NaN
RowMax(cols, r) ==
    IF cols = <<>> THEN NaN
    ELSE NanMax(CandidateVal(Head(cols), r), RowMax(Tail(cols), r))

\* a variant that falls back to the candidates record by record
ComputeTmPerRecord(nc, r) ==
    IF HasAlntmscore(nc) /\ r.alntmscore # NaN THEN r.alntmscore
    ELSE RowMax(CandidateCols(nc), r)

\* the tm of one row: the alntmscore column when the file has it, else the row max
ComputeTm(nc, r) ==
    IF HasAlntmscore(nc) THEN r.alntmscore ELSE RowMax(CandidateCols(nc), r)

\* pd.concat([]) raises ValueError: no alntmscore, no score and no evalue column
ConcatRaises(nc) == ~HasAlntmscore(nc) /\ CandidateCols(nc) = <<>>

\* df["tm"] = tm
WithTm(nc, d) == [i \in 1..Len(d) |-> [d[i] EXCEPT !.tm = ComputeTm(nc, d[i])]]

IsResolved(r) == r.tm # NaN
\* df.dropna(subset=["tm"])
DropNa(d) == SelectSeq(d, IsResolved)

\* ------------------------------------------------- node index (77-79)
\* a variant that indexes the queries only
QueryIds(d) == { d[i].query : i \in 1..Len(d) }

\* set(df["query"]) | set(df["target"])
IdSet(d) == { d[i].query : i \in 1..Len(d) } \cup { d[i].target : i \in 1..Len(d) }

\* id2ix[sid], for sid in ids
Id2Ix(ids, sid) == (CHOOSE i \in 1..Len(ids) : ids[i] = sid) - 1

\* ------------------------------------------------- filter, top-K (81-88)
NotSelf(r) == r.query # r.target

\* df[df["query"] != df["target"]], then df[df["tm"] >= min_tm] when min_tm > 0
FilterEdges(d, mt) ==
    LET AtLeast(r) == r.tm >= mt
        d1 == SelectSeq(d, NotSelf)
    IN IF mt > 0 THEN SelectSeq(d1, AtLeast) ELSE d1

\* a variant that sorts tm ascending
BeforeAscending(a, b) ==
    LexLess(a.query, b.query) \/ (a.query = b.query /\ a.tm < b.tm)

\* the sort key ["query", "tm"], ascending=[True, False]
Before(a, b) ==
    LexLess(a.query, b.query) \/ (a.query = b.query /\ a.tm > b.tm)

\* a variant that is not stable: among equal keys the last row comes first
PickLast(d) ==
    CHOOSE i \in 1..Len(d) :
        /\ \A j \in 1..Len(d) : ~Before(d[j], d[i])
        /\ \A j \in (i+1)..Len(d) : Before(d[i], d[j])

\* the row a stable sort puts first: the earliest of the rows with the least key
PickFirst(d) ==
    CHOOSE i \in 1..Len(d) :
        /\ \A j \in 1..Len(d) : ~Before(d[j], d[i])
        /\ \A j \in 1..(i-1) : Before(d[i], d[j])

RemoveAt(d, i) == SubSeq(d, 1, i - 1) \o SubSeq(d, i + 1, Len(d))

RECURSIVE SortValues(_)
\* df.sort_values(["query", "tm"], ascending=[True, False]): a stable lexsort
SortValues(d) ==
    IF d = <<>> THEN <<>>
    ELSE LET i == PickFirst(d) IN <<d[i]>> \o SortValues(RemoveAt(d, i))

\* the number of rows before row i that have its query
RankInGroup(d, i) == Cardinality({ j \in 1..(i-1) : d[j].query = d[i].query })

\* df.groupby("query", sort=False).head(K): the first K rows of every group, in order
GroupHead(d, k) ==
    LET idx == { i \in 1..Len(d) : RankInGroup(d, i) < k }
        F[i \in 0..Len(d)] ==
            IF i = 0 THEN <<>>
            ELSE IF i \in idx THEN Append(F[i-1], d[i]) ELSE F[i-1]
    IN F[Len(d)]

\* the group keys of groupby("query", sort=False): order of first appearance
GroupKeys(d) ==
    LET F[i \in 0..Len(d)] ==
            IF i = 0 THEN <<>>
            ELSE IF RankInGroup(d, i) = 0 THEN Append(F[i-1], d[i].query) ELSE F[i-1]
    IN F[Len(d)]

\* sub: the rows of group q
Group(d, q) == LET IsQ(r) == r.query = q IN SelectSeq(d, IsQ)

\* ------------------------------------------------- graph arrays (90-108)
\* a variant that allocates with zeros
ZeroRow(k, v) == [j \in 1..(k + 1) |-> 0]

\* one row of np.full((N, K + 1), v)
FullRow(k, v) == [j \in 1..(k + 1) |-> v]

\* np.clip(tm, 0.0, 1.0)
Clip(x, lo, hi) == IF x < lo THEN lo ELSE IF x > hi THEN hi ELSE x

\* 1.0 - np.clip(tm, 0.0, 1.0)
Dist(tm) == 100 - Clip(tm, 0, 100)

\* a variant whose slice starts at column 0
SliceAssignFromZero(row, vals, n) ==
    [j \in DOMAIN row |-> IF j <= n THEN vals[j] ELSE row[j]]

\* row[1:1+n] = vals[:n]
SliceAssign(row, vals, n) ==
    [j \in DOMAIN row |-> IF 2 <= j /\ j <= 1 + n THEN vals[j - 1] ELSE row[j]]

\* a variant of the assertion that is off by one
ConfigLoose(k, u) == u <= k + 2

\* the assertion of line 34
ConfigOK(k, u) == u <= k + 1

\* ------------------------------------------------------------- state
VARIABLES
    pc,        \* the statement main() is at, "done" or "aborted"
    K,         \* int(args.k)
    UMAP_K,    \* int(args.umap_n_neighbors)
    min_tm,    \* float(args.min_tm)
    ncols,     \* df.shape[1] of the file read (0 before it is read)
    raw,       \* the frame as read_csv and to_numeric left it (history)
    df,        \* the frame, reassigned by every stage
    all_ids,   \* the sorted identifiers; id2ix is its inverse
    N,         \* len(all_ids)
    indices,   \* row -> the K+1 neighbor indices
    dists,     \* row -> the K+1 neighbor distances
    todo,      \* the groups the fill loop has still to visit
    umap_N,    \* number of rows handed to UMAP, -1 while it was not called
    umap_k,    \* n_neighbors handed to UMAP
    written    \* whether the coords TSV and the PNG were written

vars == <<pc, K, UMAP_K, min_tm, ncols, raw, df, all_ids, N, indices, dists,
          todo, umap_N, umap_k, written>>

\* parse_args(): the options are fixed, nothing else exists yet
Init ==
    /\ pc = "start"
    /\ K \in Ks
    /\ UMAP_K \in UmapKs
    /\ min_tm \in MinTms
    /\ ncols = 0
    /\ raw = <<>>
    /\ df = <<>>
    /\ all_ids = <<>>
    /\ N = 0
    /\ indices = <<>>
    /\ dists = <<>>
    /\ todo = <<>>
    /\ umap_N = -1
    /\ umap_k = 0
    /\ written = FALSE

\* lines 30-35: the assertion on the configuration
CheckConfig ==
    /\ pc = "start"
    /\ pc' = IF ConfigOK(K, UMAP_K) THEN "read" ELSE "aborted"
    /\ UNCHANGED <<K, UMAP_K, min_tm, ncols, raw, df, all_ids, N, indices, dists,
                   todo, umap_N, umap_k, written>>

\* lines 45-54: read_csv, the column names, to_numeric
ReadCsv ==
    /\ pc = "read"
    /\ \E nc \in NCols : \E file \in Files(nc) :
        /\ ncols' = nc
        /\ raw' = [i \in 1..Len(file) |-> [file[i] EXCEPT !.line = i]]
        /\ df' = raw'
    /\ pc' = "tm"
    /\ UNCHANGED <<K, UMAP_K, min_tm, all_ids, N, indices, dists, todo, umap_N,
                   umap_k, written>>

\* lines 56-74: the tm column, then dropna
ResolveTm ==
    /\ pc = "tm"
    /\ IF ConcatRaises(ncols)
       THEN pc' = "aborted" /\ df' = df
       ELSE pc' = "index" /\ df' = DropNa(WithTm(ncols, df))
    /\ UNCHANGED <<K, UMAP_K, min_tm, ncols, raw, all_ids, N, indices, dists,
                   todo, umap_N, umap_k, written>>

\* lines 77-79: all_ids, id2ix, N
BuildIndex ==
    /\ pc = "index"
    /\ all_ids' = SortedIds(IdSet(df))
    /\ N' = Len(all_ids')
    /\ pc' = "filter"
    /\ UNCHANGED <<K, UMAP_K, min_tm, ncols, raw, df, indices, dists, todo,
                   umap_N, umap_k, written>>

\* lines 82-84: drop self hits and hits below min_tm
Filter ==
    /\ pc = "filter"
    /\ df' = FilterEdges(df, min_tm)
    /\ pc' = "topk"
    /\ UNCHANGED <<K, UMAP_K, min_tm, ncols, raw, all_ids, N, indices, dists,
                   todo, umap_N, umap_k, written>>

\* lines 87-88: sort, keep the first K rows of every query
TopK ==
    /\ pc = "topk"
    /\ df' = GroupHead(SortValues(df), K)
    /\ pc' = "alloc"
    /\ UNCHANGED <<K, UMAP_K, min_tm, ncols, raw, all_ids, N, indices, dists,
                   todo, umap_N, umap_k, written>>

\* lines 92-98: the arrays filled with -1 and inf, then the self neighbors
AllocGraph ==
    /\ pc = "alloc"
    /\ indices' = [i \in 0..(N - 1) |-> [FullRow(K, NoIndex) EXCEPT ![1] = i]]
    /\ dists' = [i \in 0..(N - 1) |-> [FullRow(K, Inf) EXCEPT ![1] = 0]]
    /\ todo' = GroupKeys(df)
    /\ pc' = "fill"
    /\ UNCHANGED <<K, UMAP_K, min_tm, ncols, raw, df, all_ids, N, umap_N, umap_k,
                   written>>

\* lines 101-108: one iteration of the loop over the groups
FillNeighbors ==
    /\ pc = "fill"
    /\ todo # <<>>
    /\ LET q == Head(todo)
           sub == Group(df, q)
           i == Id2Ix(all_ids, q)
           js == [p \in 1..Len(sub) |-> Id2Ix(all_ids, sub[p].target)]
           ds == [p \in 1..Len(sub) |-> Dist(sub[p].tm)]
           n == Min(K, Len(js))
       IN /\ indices' = [indices EXCEPT ![i] = SliceAssign(@, js, n)]
          /\ dists' = [dists EXCEPT ![i] = SliceAssign(@, ds, n)]
    /\ todo' = Tail(todo)
    /\ UNCHANGED <<pc, K, UMAP_K, min_tm, ncols, raw, df, all_ids, N, umap_N,
                   umap_k, written>>

\* lines 111-123: UMAP is built and fit_transform is called; what the library does
\* with the graph is not this program's code: it returns or it raises
RunUmap ==
    /\ pc = "fill"
    /\ todo = <<>>
    /\ umap_k' = Min(UMAP_K, K + 1)
    /\ umap_N' = N
    /\ \E raised \in BOOLEAN : pc' = IF raised THEN "aborted" ELSE "save"
    /\ UNCHANGED <<K, UMAP_K, min_tm, ncols, raw, df, all_ids, N, indices, dists,
                   todo, written>>

\* lines 126-140: the coords TSV and the PNG
SaveOutputs ==
    /\ pc = "save"
    /\ written' = TRUE
    /\ pc' = "done"
    /\ UNCHANGED <<K, UMAP_K, min_tm, ncols, raw, df, all_ids, N, indices, dists,
                   todo, umap_N, umap_k>>

Next ==
    \/ CheckConfig
    \/ ReadCsv
    \/ ResolveTm
    \/ BuildIndex
    \/ Filter
    \/ TopK
    \/ AllocGraph
    \/ FillNeighbors
    \/ RunUmap
    \/ SaveOutputs

Spec == Init /\ [][Next]_vars

\* ------------------------------------------------- reading the state
\* the program is past the statement that builds the node index
Indexed == pc \in {"filter", "topk", "alloc", "fill", "save", "done"}
              \/ (pc = "aborted" /\ umap_N # -1)
\* the arrays exist (lines 92-98 have run)
GraphBuilt == pc \in {"fill", "save", "done"} \/ (pc = "aborted" /\ umap_N # -1)
\* the fill loop has ended
Assembled == GraphBuilt /\ todo = <<>>

NodeIds == { all_ids[i] : i \in 1..Len(all_ids) }

\* the similarity of an input record, NaN when unresolved
RawTm(i) == ComputeTm(ncols, raw[i])

\* the input lines of the resolved records
ResolvedLines == { i \in 1..Len(raw) : RawTm(i) # NaN }

\* C(q): the lines of q's resolved edges that are no self-edge and reach min_tm
CandidateLines(q) ==
    { i \in ResolvedLines :
        /\ raw[i].query = q
        /\ raw[i].target # q
        /\ (min_tm > 0 => RawTm(i) >= min_tm) }

\* the populated neighbor columns of row i (positions 2 .. K+1)
Populated(i) == { j \in 2..(K + 1) : indices[i][j] # -1 }

\* row i holds the edges e[1], ..., e[m] in its columns 1 .. m
RowHolds(i, e, m) ==
    \A p \in 1..m :
        /\ indices[i][p + 1] = Id2Ix(all_ids, raw[e[p]].target)
        /\ dists[i][p + 1] = Dist(RawTm(e[p]))

Injective(e) == \A a, b \in DOMAIN e : a # b => e[a] # e[b]

\* ---------------------------------------------------------------- C1
\* C1: once the arrays exist, and through every iteration of the fill loop,
\* every row i in [0,N) has indices[i][0] = i and dists[i][0] = 0.
SelfLoop ==
    GraphBuilt =>
        /\ DOMAIN indices = 0..(N - 1)
        /\ DOMAIN dists = 0..(N - 1)
        /\ \A i \in 0..(N - 1) : indices[i][1] = i /\ dists[i][1] = 0

\* a finished graph in which some row had neighbors written next to its self-loop
SelfLoopWitness ==
    /\ Assembled
    /\ K >= 1
    /\ N >= 2
    /\ \E i \in 0..(N - 1) : Populated(i) # {}

\* ---------------------------------------------------------------- C2
\* C2: for every query q the populated columns of its row hold exactly
\* min(K, |C(q)|) edges of C(q), and no edge of C(q) left out has a tm strictly
\* greater than an edge in the row.
TopKSelection ==
    Assembled =>
        \A q \in NodeIds :
            LET i == Id2Ix(all_ids, q)
                C == CandidateLines(q)
                m == Min(K, Cardinality(C))
            IN /\ Populated(i) = 2..(m + 1)
               /\ \E e \in [1..m -> C] :
                    /\ Injective(e)
                    /\ RowHolds(i, e, m)
                    /\ \A c \in C : \A p \in 1..m :
                         (\A p2 \in 1..m : e[p2] # c) => RawTm(c) <= RawTm(e[p])

\* a query with more candidates than K, of different tm, was truncated
TopKWitness ==
    /\ Assembled
    /\ K >= 1
    /\ \E q \in NodeIds :
         /\ Cardinality(CandidateLines(q)) > K
         /\ \E a, b \in CandidateLines(q) : RawTm(a) < RawTm(b)

\* ---------------------------------------------------------------- C3
\* C3: in every row the populated columns are ordered by decreasing tm, so by
\* non-decreasing distance, and retained edges of equal tm keep the order they
\* have in the input file.
RowOrdering ==
    Assembled =>
        \A q \in NodeIds :
            LET i == Id2Ix(all_ids, q)
                C == CandidateLines(q)
                m == Cardinality(Populated(i))
            IN /\ \A j, j2 \in Populated(i) : j < j2 => dists[i][j] <= dists[i][j2]
               /\ \E e \in [1..m -> C] :
                    /\ RowHolds(i, e, m)
                    /\ \A p, p2 \in 1..m :
                         p < p2 => \/ RawTm(e[p]) > RawTm(e[p2])
                                   \/ (RawTm(e[p]) = RawTm(e[p2]) /\ e[p] < e[p2])

\* a row holding two edges of equal tm to different targets
RowOrderingWitness ==
    /\ Assembled
    /\ \E q \in NodeIds :
         LET i == Id2Ix(all_ids, q)
         IN /\ Populated(i) = {2, 3}
            /\ dists[i][2] = dists[i][3]
            /\ indices[i][2] # indices[i][3]
            /\ \E a, b \in CandidateLines(q) :
                 a # b /\ RawTm(a) = RawTm(b) /\ raw[a].target # raw[b].target

\* ---------------------------------------------------------------- C4
\* C4 as stated: every identifier of every loaded record, the unresolved ones
\* included, has a node index.
IndexCoversLoaded ==
    Indexed =>
        \A i \in 1..Len(raw) : raw[i].query \in NodeIds /\ raw[i].target \in NodeIds

\* C4 amended: every identifier that is query or target of a resolved record
\* (self-edges and edges below min_tm included) has a node index and, once the
\* arrays exist, a row; all_ids lists exactly these identifiers in strictly
\* increasing lexicographic order, so index assignment is a bijection onto [0,N).
IndexCoversResolved ==
    Indexed =>
        /\ NodeIds = { raw[i].query : i \in ResolvedLines }
                       \cup { raw[i].target : i \in ResolvedLines }
        /\ N = Len(all_ids)
        /\ \A a, b \in 1..N : a < b => LexLess(all_ids[a], all_ids[b])
        /\ \A a \in 1..N : Id2Ix(all_ids, all_ids[a]) = a - 1
        /\ GraphBuilt => DOMAIN indices = 0..(N - 1)

\* an identifier that is only ever a target, of an edge below min_tm, has a row
IndexWitness ==
    /\ Assembled
    /\ N = 3
    /\ \E i \in ResolvedLines :
         /\ min_tm > 0 /\ RawTm(i) < min_tm
         /\ \A k \in 1..Len(raw) : raw[k].query # raw[i].target
         /\ \A k \in 1..Len(raw) : k # i => raw[k].target # raw[i].target
         /\ Id2Ix(all_ids, raw[i].target) \in DOMAIN indices

\* ---------------------------------------------------------------- C5
SetMax(S) == IF S = {} THEN NaN ELSE CHOOSE x \in S : \A y \in S : y <= x

\* the offered candidates of a record: score/100, and evalue when in [0,1]
CandSet(r) ==
    (IF HasScore(ncols) /\ r.score # NaN THEN {r.score \div 100} ELSE {})
    \cup (IF HasEvalue(ncols) /\ r.evalue # NaN /\ r.evalue >= 0 /\ r.evalue <= 100
          THEN {r.evalue} ELSE {})

\* the frame holds line i with similarity t, or does not hold it when t is NaN
FrameHas(i, t) ==
    IF t = NaN THEN \A k \in 1..Len(df) : df[k].line # i
    ELSE \E k \in 1..Len(df) : df[k].line = i /\ df[k].tm = t

\* C5 as stated: per record, alntmscore when present and non-null, else the
\* maximum of the offered candidates; dropped only without any candidate; an
\* input with neither score nor evalue never aborts the run.
ResolvedPerRecord ==
    /\ pc = "index" =>
         \A i \in 1..Len(raw) :
             FrameHas(i, IF HasAlntmscore(ncols) /\ raw[i].alntmscore # NaN
                         THEN raw[i].alntmscore
                         ELSE SetMax(CandSet(raw[i])))
    /\ ~(pc = "aborted" /\ raw # <<>> /\ umap_N = -1)

\* C5 amended: the choice is made per file, by its columns.  With an alntmscore
\* column (8 or more columns) tm is alntmscore and a record whose alntmscore is
\* null is dropped whatever its score and evalue; without it, and with a score or
\* an evalue column, tm is the maximum of score/100 (score non-null) and evalue
\* (only when 0 <= evalue <= 1) and the record is dropped when neither is on
\* offer; with none of the three columns the run aborts at the resolver.
ResolvedPerSchema ==
    /\ pc = "index" =>
         \A i \in 1..Len(raw) :
             FrameHas(i, IF HasAlntmscore(ncols) THEN raw[i].alntmscore
                         ELSE SetMax(CandSet(raw[i])))
    /\ (raw # <<>> /\ ~HasAlntmscore(ncols) /\ ~HasScore(ncols) /\ ~HasEvalue(ncols))
         => pc \in {"tm", "aborted"} /\ umap_N = -1 /\ ~written

\* a record with a null alntmscore and score = 80 in an 8-column file is dropped
ResolvedWitness ==
    /\ pc = "index"
    /\ ncols = 8
    /\ Len(raw) = 1
    /\ raw[1].alntmscore = NaN
    /\ raw[1].score = 8000
    /\ df = <<>>

\* ---------------------------------------------------------------- C6
\* C6: with umap_n_neighbors > K+1 the run never gets past the assertion: the
\* file is not read, no array is built, UMAP is not called, nothing is written.
ConfigAbort ==
    UMAP_K > K + 1 =>
        /\ pc \in {"start", "aborted"}
        /\ ncols = 0 /\ raw = <<>> /\ df = <<>>
        /\ all_ids = <<>> /\ indices = <<>> /\ dists = <<>>
        /\ umap_N = -1
        /\ ~written

\* the assertion failed
ConfigAbortWitness == pc = "aborted" /\ UMAP_K > K + 1 /\ UMAP_K = K + 2

\* ---------------------------------------------------------------- C7
\* C7: UMAP is only ever called with N >= 1, and nothing is written for N = 0.
EmptyNodeSetFatal == umap_N # 0 /\ (written => N >= 1)

\* ---------------------------------------------------------------- C8
\* C8: in the row of a query with m retained edges, columns 1..m are populated
\* (an index in [0,N), a finite distance) and columns m+1..K hold -1 and +inf;
\* an identifier without retained outgoing edges has only its self-loop.
SentinelSlots ==
    Assembled =>
        \A q \in NodeIds :
            LET i == Id2Ix(all_ids, q)
                m == Min(K, Cardinality(CandidateLines(q)))
            IN /\ \A j \in 2..(m + 1) :
                    indices[i][j] \in 0..(N - 1) /\ dists[i][j] \in 0..100
               /\ \A j \in (m + 2)..(K + 1) :
                    indices[i][j] = -1 /\ dists[i][j] = Inf

\* one row with fewer than K neighbors and one target-only row, all sentinel
SentinelWitness ==
    /\ Assembled
    /\ K = 2
    /\ \E q \in NodeIds :
         /\ Cardinality(CandidateLines(q)) = 1
         /\ indices[Id2Ix(all_ids, q)][2] # -1
         /\ indices[Id2Ix(all_ids, q)][3] = -1
    /\ \E t \in NodeIds :
         /\ \A k \in 1..Len(raw) : raw[k].query # t
         /\ \A j \in 2..(K + 1) : indices[Id2Ix(all_ids, t)][j] = -1

\* ---------------------------------------------------------------- C9
\* C9: every edge kept by the resolver has tm in [0,1].
TmBounded ==
    pc \in {"index", "filter", "topk", "alloc", "fill"} =>
        \A k \in 1..Len(df) : df[k].tm >= 0 /\ df[k].tm <= 100

\* ---------------------------------------------------------------- C10
\* C10: in every row no node index occurs twice among the populated columns,
\* and none of them is the row's own index.
NeighborsDistinct ==
    Assembled =>
        \A i \in 0..(N - 1) :
            /\ \A j, j2 \in Populated(i) : j # j2 => indices[i][j] # indices[i][j2]
            /\ \A j \in Populated(i) : indices[i][j] # i

====
